---------------------------- MODULE Spec2Model ----------------------------
(***************************************************************************)
(* State-machine model of the US population dashboard (streamlit_app.py).  *)
(*                                                                         *)
(* The script is re-executed from top to bottom each time a sidebar widget *)
(* changes value.  One execution reads the CSV file, filters it by the     *)
(* selected year, computes the year-over-year differences, and derives the *)
(* Gains/Losses metrics, the two migration percentages and the ranked      *)
(* table.  The specification Spec models a session: Init is the first      *)
(* execution, SelectYear and SelectTheme are the re-executions.            *)
(*                                                                         *)
(* The specification SpecFormat exercises the pure function format_number  *)
(* on a range of integers.                                                 *)
(***************************************************************************)
EXTENDS Integers, Sequences, FiniteSets, TLC

VARIABLES
    csv_file,                        \* content of the data file on disk
    df_reshaped,                     \* the table read from the file
    year_list,                       \* options of the year selectbox
    selected_year,                   \* value of the year selectbox
    selected_color_theme,            \* value of the theme selectbox
    df_selected_year_sorted,         \* year slice sorted by population
    df_population_difference_sorted, \* result of calculate_population_difference
    first_state_name, first_state_population, first_state_delta,
    last_state_name, last_state_population, last_state_delta,
    states_migration_greater,        \* inbound percentage given to make_donut
    states_migration_less,           \* outbound percentage given to make_donut
    num,                             \* argument of a format_number call
    formatted                        \* its result ("" before the call)

dashboard == <<csv_file, df_reshaped, year_list, selected_year,
               selected_color_theme, df_selected_year_sorted,
               df_population_difference_sorted,
               first_state_name, first_state_population, first_state_delta,
               last_state_name, last_state_population, last_state_delta,
               states_migration_greater, states_migration_less>>

vars == <<dashboard, num, formatted>>

---------------------------------------------------------------------------
(* Bounds of the model and constants of the program.                       *)

\* The first year of the data set; the literal of `selected_year > 2010`.
FirstYear == 2010

\* The years the modelled data files cover.
Years == FirstYear .. (FirstYear + 2)

\* The states the modelled data files cover, with their numeric id.
States == {"A", "B", "C"}

StateId == [s \in States |-> CASE s = "A" -> 1 [] s = "B" -> 2 [] OTHER -> 3]

\* Populations: differences of exactly 50000, just above it, and of 1.
Pops == {10000, 60000, 60001}

\* The threshold of "significant" migration.
MigrationThreshold == 50000

\* The options of the colour-theme selectbox, in the order of the source.
color_theme_list == <<"blues", "cividis", "greens", "inferno", "magma",
                      "plasma", "reds", "rainbow", "turbo", "viridis">>

\* How many of the themes the model lets the user pick.
NumThemes == 2

\* format_number is exercised on integers up to this many millions,
\* of either sign.
MaxMillions == 3

Million == 1000000

Thousand == 1000

---------------------------------------------------------------------------
(* format_number                                                           *)

\* round(num / 1000000, 1), in tenths of a million, for num > 0.  The
\* quotient is a binary floating-point number; away from a tie it rounds to
\* the nearest tenth.  On a tie (num = t * 100000 + 50000) the result is
\* decided by the binary representation of the quotient: when it is exact
\* (x.25, x.75) the even tenth is taken, otherwise the quotient lies just
\* above or just below the tie and either neighbour can result (it also
\* differs between a Python int and a NumPy integer argument).
round_tenths(n) ==
    LET t == n \div 100000
        r == n % 100000
    IN  IF r < 50000 THEN {t}
        ELSE IF r > 50000 THEN {t + 1}
        ELSE IF (2 * t + 1) % 5 = 0
             THEN {IF t % 2 = 0 THEN t ELSE t + 1}
             ELSE {t, t + 1}

\* repr of a float with one decimal digit, given in tenths (t >= 0).
float_str(t) == ToString(t \div 10) \o "." \o ToString(t % 10)

format_number_mutant_ge(n) ==
    IF n >= Million
    THEN IF n % Million = 0
         THEN {ToString(n \div Million) \o " M"}
         ELSE {float_str(t) \o " M" : t \in round_tenths(n)}
    ELSE {ToString(n \div Thousand) \o " K"}

format_number_mutant_floor(n) ==
    IF n > Million
    THEN IF n % Million = 0
         THEN {ToString(n \div Million) \o " M"}
         ELSE {float_str(n \div 100000) \o " M"}
    ELSE {ToString(n \div Thousand) \o " K"}

format_number_mutant_trunc(n) ==
    IF n > Million
    THEN IF n % Million = 0
         THEN {ToString(n \div Million) \o " M"}
         ELSE {float_str(t) \o " M" : t \in round_tenths(n)}
    ELSE {IF n < 0 THEN ToString(-((-n) \div Thousand)) \o " K"
                   ELSE ToString(n \div Thousand) \o " K"}

\* The strings format_number(n) can return for an integer n (one string,
\* except on a rounding tie of the M branch).  // and % are floor division
\* and its remainder, as \div and % are.
format_number(n) ==
    IF n > Million
    THEN IF n % Million = 0
         THEN {ToString(n \div Million) \o " M"}
         ELSE {float_str(t) \o " M" : t \in round_tenths(n)}
    ELSE {ToString(n \div Thousand) \o " K"}

\* format_number on a float64 argument holding the integer n: // and the
\* exact-million branch keep the float, whose repr ends in ".0".
format_number_float(n) ==
    IF n > Million
    THEN IF n % Million = 0
         THEN {ToString(n \div Million) \o ".0 M"}
         ELSE {float_str(t) \o " M" : t \in round_tenths(n)}
    ELSE {ToString(n \div Thousand) \o ".0 K"}

\* The integers format_number is exercised on: every multiple of 25000 up
\* to MaxMillions millions of either sign, and the neighbours of the
\* branch and rounding boundaries.
FormatInputs ==
    {k * 25000 : k \in (-40 * MaxMillions) .. (40 * MaxMillions)}
    \cup {-2500001, -1000001, -999999, -1001, -1000, -999, -500, -1,
          1, 499, 500, 999, 1001, 1999, 999999, 1000001,
          1049999, 1050001, 1234567, 1949999, 1960000, 1999999, 2000001}

---------------------------------------------------------------------------
(* The data file                                                           *)

Row(s, y, p) == [states |-> s, id |-> StateId[s], year |-> y, population |-> p]

\* The orders in which the rows of a set of states can appear.
Perms(S) ==
    {p \in [1 .. Cardinality(S) -> S] :
        \A i, j \in 1 .. Cardinality(S) : i # j => p[i] # p[j]}

\* The rows of the first year are listed in the order of the state ids;
\* the rows of a later year come in any order relative to them.
Orders(S, y) ==
    IF y = FirstYear
    THEN {p \in Perms(S) :
            \A i, j \in 1 .. Cardinality(S) :
                i < j => StateId[p[i]] < StateId[p[j]]}
    ELSE Perms(S)

\* The possible rows of one year over the states Sts: any subset of them
\* (a state may have no record for a year), at most one row per state.
YearSlices(Sts, y) ==
    UNION {{[i \in 1 .. Cardinality(S) |-> Row(p[i], y, f[p[i]])] :
                p \in Orders(S, y), f \in [S -> Pops]} : S \in SUBSET Sts}

\* The data files over the states Sts and the years y .. last: the rows of
\* each year in turn.  The file is the 2010-2019 data set, so it has rows
\* for its first year, 2010.
RECURSIVE TablesFrom(_, _, _)
TablesFrom(Sts, y, last) ==
    IF y > last THEN {<< >>}
    ELSE {s \o t : s \in (IF y = FirstYear THEN YearSlices(Sts, y) \ {<< >>}
                                           ELSE YearSlices(Sts, y)),
                   t \in TablesFrom(Sts, y + 1, last)}

\* The data files of the model: all states over the first two years, and
\* two of the states over all the years.
Tables ==
    TablesFrom(States, FirstYear, FirstYear + 1)
    \cup TablesFrom({"A", "B"}, FirstYear, FirstYear + 2)

\* pd.read_csv: the table has the rows of the file, in the file's order.
read_csv(file) == file

---------------------------------------------------------------------------
(* pandas operations                                                       *)

\* df[df.year == y]: the rows of year y, in the order of df.
filter_year(df, y) == SelectSeq(df, LAMBDA r : r.year = y)

\* Series.unique(): the distinct values in order of first appearance.
RECURSIVE unique(_)
unique(s) ==
    IF s = << >> THEN << >>
    ELSE LET rest == unique(SubSeq(s, 1, Len(s) - 1))
             x    == s[Len(s)]
         IN  IF \E i \in DOMAIN rest : rest[i] = x THEN rest
             ELSE Append(rest, x)

\* s[::-1]
reversed(s) == [i \in 1 .. Len(s) |-> s[Len(s) + 1 - i]]

\* Series.nunique(): the number of distinct values.
nunique(s) == Cardinality({s[i] : i \in DOMAIN s})

\* One insertion of sort_values(by=..., ascending=False): x goes after
\* every row whose key is at least its own, so equal keys keep their order.
insert_desc(sorted, x, by) ==
    LET n == Cardinality({i \in DOMAIN sorted : sorted[i][by] >= x[by]})
    IN  SubSeq(sorted, 1, n) \o <<x>> \o SubSeq(sorted, n + 1, Len(sorted))

insert_asc(sorted, x, by) ==
    LET n == Cardinality({i \in DOMAIN sorted : sorted[i][by] <= x[by]})
    IN  SubSeq(sorted, 1, n) \o <<x>> \o SubSeq(sorted, n + 1, Len(sorted))

RECURSIVE sort_ascending(_, _)
sort_ascending(df, by) ==
    IF df = << >> THEN << >>
    ELSE insert_asc(sort_ascending(SubSeq(df, 1, Len(df) - 1), by),
                    df[Len(df)], by)

sort_values_mutant_asc(df, by) == sort_ascending(df, by)

RECURSIVE sort_descending(_, _)
sort_descending(df, by) ==
    IF df = << >> THEN << >>
    ELSE insert_desc(sort_descending(SubSeq(df, 1, Len(df) - 1), by),
                     df[Len(df)], by)

\* df.sort_values(by=by, ascending=False).
sort_values(df, by) == sort_descending(df, by)

\* round(x) of the quotient a / b (a >= 0, b > 0): the nearest integer,
\* the even one on a tie.
py_round(a, b) ==
    LET q == a \div b
        r == a % b
    IN  IF 2 * r < b THEN q
        ELSE IF 2 * r > b THEN q + 1
        ELSE IF q % 2 = 0 THEN q ELSE q + 1

---------------------------------------------------------------------------
(* calculate_population_difference                                         *)

\* A row of the result: states, id, population, population_difference.
Delta(r, d) == [states |-> r.states, id |-> r.id,
                population |-> r.population, population_difference |-> d]

population_difference_mutant_nofill(selected_year_data, previous_year_data) ==
    [i \in DOMAIN selected_year_data |->
        IF i \in DOMAIN previous_year_data
        THEN selected_year_data[i].population
             - previous_year_data[i].population
        ELSE 0]

\* selected.population.sub(previous.population, fill_value=0), assigned as
\* a column of the selected year's rows.  Both frames were given a fresh
\* 0..n-1 index by reset_index(), and Series.sub aligns on the index: row i
\* of the selected year is paired with row i of the previous year, whatever
\* their states; a row without a partner is paired with 0; previous-year
\* rows beyond the selected year's last row are dropped by the assignment.
population_difference(selected_year_data, previous_year_data) ==
    [i \in DOMAIN selected_year_data |->
        selected_year_data[i].population
        - (IF i \in DOMAIN previous_year_data
           THEN previous_year_data[i].population ELSE 0)]

calculate_population_difference(input_df, input_year) ==
    LET selected_year_data == filter_year(input_df, input_year)
        previous_year_data == filter_year(input_df, input_year - 1)
        difference == population_difference(selected_year_data,
                                            previous_year_data)
    IN  sort_values([i \in DOMAIN selected_year_data |->
                        Delta(selected_year_data[i], difference[i])],
                    "population_difference")

\* The dtype of the population_difference column.  Series.sub keeps int64
\* when the two indexes are equal (as many rows in both years); otherwise
\* it aligns them, which introduces NaN and makes the column float64.
difference_is_float(input_df, input_year) ==
    Len(filter_year(input_df, input_year))
        # Len(filter_year(input_df, input_year - 1))

format_difference(input_df, input_year, d) ==
    IF difference_is_float(input_df, input_year)
    THEN format_number_float(d) ELSE format_number(d)

---------------------------------------------------------------------------
(* The script                                                              *)

\* list(df_reshaped.year.unique())[::-1]
year_options(df) == reversed(unique([i \in DOMAIN df |-> df[i].year]))

has_previous_year_mutant_ge(year) == year >= FirstYear

\* `if selected_year > 2010`
has_previous_year(year) == year > FirstYear

is_inbound_mutant_ge(d) == d.population_difference >= MigrationThreshold

\* population_difference > 50000
is_inbound(d) == d.population_difference > MigrationThreshold

\* population_difference < -50000
is_outbound(d) == d.population_difference < -MigrationThreshold

migration_percentage_mutant_nodiv(count, deltas) == count * 100

\* round((len(df_...) / df_population_difference_sorted.states.nunique()) * 100)
migration_percentage(count, deltas) ==
    py_round(count * 100, nunique([i \in DOMAIN deltas |-> deltas[i].states]))

\* What the two Gains/Losses metrics show for a year: the possible
\* <<label, value, delta>> of the first and of the last metric.
first_metric(table, year, result) ==
    IF has_previous_year(year)
    THEN {<<result[1].states, p, d>> :
            p \in format_number(result[1].population),
            d \in format_difference(table, year,
                                    result[1].population_difference)}
    ELSE {<<"-", "-", "">>}

last_metric(table, year, result) ==
    IF has_previous_year(year)
    THEN {<<result[Len(result)].states, p, d>> :
            p \in format_number(result[Len(result)].population),
            d \in format_difference(table, year,
                                    result[Len(result)].population_difference)}
    ELSE {<<"-", "-", "">>}

\* The percentage given to the inbound donut chart.
inbound_percentage(year, result) ==
    IF has_previous_year(year)
    THEN migration_percentage(Len(SelectSeq(result, is_inbound)), result)
    ELSE 0

\* The percentage given to the outbound donut chart.
outbound_percentage(year, result) ==
    IF has_previous_year(year)
    THEN migration_percentage(Len(SelectSeq(result, is_outbound)), result)
    ELSE 0

\* One execution of the script against the data file, with the widgets at
\* the values year and theme: the possible values of the script's variables.
Script(file, year, theme) ==
    LET table  == read_csv(file)
        result == calculate_population_difference(table, year)
    IN  {[df_reshaped |-> table,
          year_list |-> year_options(table),
          selected_year |-> year,
          selected_color_theme |-> theme,
          df_selected_year_sorted |->
              sort_values(filter_year(table, year), "population"),
          df_population_difference_sorted |-> result,
          first |-> f,
          last |-> l,
          states_migration_greater |-> inbound_percentage(year, result),
          states_migration_less |-> outbound_percentage(year, result)] :
            f \in first_metric(table, year, result),
            l \in last_metric(table, year, result)}

\* The first execution: the selectboxes show their first option.
Init ==
    /\ csv_file \in Tables
    /\ \E r \in Script(csv_file, year_options(read_csv(csv_file))[1],
                       color_theme_list[1]) :
        /\ df_reshaped = r.df_reshaped
        /\ year_list = r.year_list
        /\ selected_year = r.selected_year
        /\ selected_color_theme = r.selected_color_theme
        /\ df_selected_year_sorted = r.df_selected_year_sorted
        /\ df_population_difference_sorted = r.df_population_difference_sorted
        /\ first_state_name = r.first[1]
        /\ first_state_population = r.first[2]
        /\ first_state_delta = r.first[3]
        /\ last_state_name = r.last[1]
        /\ last_state_population = r.last[2]
        /\ last_state_delta = r.last[3]
        /\ states_migration_greater = r.states_migration_greater
        /\ states_migration_less = r.states_migration_less
    /\ num = 0
    /\ formatted = ""

\* A widget changed: the script runs again, from the top.
Rerun(year, theme) ==
    /\ \E r \in Script(csv_file, year, theme) :
        /\ df_reshaped' = r.df_reshaped
        /\ year_list' = r.year_list
        /\ selected_year' = r.selected_year
        /\ selected_color_theme' = r.selected_color_theme
        /\ df_selected_year_sorted' = r.df_selected_year_sorted
        /\ df_population_difference_sorted' = r.df_population_difference_sorted
        /\ first_state_name' = r.first[1]
        /\ first_state_population' = r.first[2]
        /\ first_state_delta' = r.first[3]
        /\ last_state_name' = r.last[1]
        /\ last_state_population' = r.last[2]
        /\ last_state_delta' = r.last[3]
        /\ states_migration_greater' = r.states_migration_greater
        /\ states_migration_less' = r.states_migration_less
    /\ UNCHANGED <<csv_file, num, formatted>>

SelectYear_mutant_stale(year) ==
    /\ year # selected_year
    /\ \E i \in DOMAIN year_list : year_list[i] = year
    /\ selected_year' = year
    /\ UNCHANGED <<csv_file, df_reshaped, year_list, selected_color_theme,
                   df_selected_year_sorted, df_population_difference_sorted,
                   first_state_name, first_state_population, first_state_delta,
                   last_state_name, last_state_population, last_state_delta,
                   states_migration_greater, states_migration_less,
                   num, formatted>>

\* The user picks another year: the script runs again.
SelectYear(year) ==
    /\ year # selected_year
    /\ \E i \in DOMAIN year_list : year_list[i] = year
    /\ Rerun(year, selected_color_theme)

\* The user picks another colour theme: the script runs again.
SelectTheme(theme) ==
    /\ theme # selected_color_theme
    /\ Rerun(selected_year, theme)

Next ==
    \/ \E year \in Years : SelectYear(year)
    \/ \E i \in 1 .. NumThemes : SelectTheme(color_theme_list[i])

Spec == Init /\ [][Next]_vars

---------------------------------------------------------------------------
(* format_number on its own                                                *)

\* A small fixed data file for the specification of format_number.
FormatFile == <<Row("A", FirstYear, 10000)>>

\* The dashboard is at rest, showing the first year of that file.
InitFormat ==
    /\ csv_file = FormatFile
    /\ df_reshaped = read_csv(FormatFile)
    /\ year_list = year_options(read_csv(FormatFile))
    /\ selected_year = FirstYear
    /\ selected_color_theme = color_theme_list[1]
    /\ df_selected_year_sorted = read_csv(FormatFile)
    /\ df_population_difference_sorted
         = calculate_population_difference(read_csv(FormatFile), FirstYear)
    /\ first_state_name = "-"
    /\ first_state_population = "-"
    /\ first_state_delta = ""
    /\ last_state_name = "-"
    /\ last_state_population = "-"
    /\ last_state_delta = ""
    /\ states_migration_greater = 0
    /\ states_migration_less = 0
    /\ num \in FormatInputs
    /\ formatted = ""

\* The call format_number(num).
FormatCall ==
    /\ formatted = ""
    /\ formatted' \in format_number(num)
    /\ UNCHANGED <<dashboard, num>>

NextFormat == FormatCall

SpecFormat == InitFormat /\ [][NextFormat]_vars

---------------------------------------------------------------------------
(* Properties                                                              *)

\* The data file has a record for state s and year y.
HasRecord(s, y) ==
    \E i \in DOMAIN csv_file : csv_file[i].states = s /\ csv_file[i].year = y

\* The population of state s in year y according to the data file, 0 when
\* the file has no such record.
PopulationOf(s, y) ==
    IF HasRecord(s, y)
    THEN csv_file[CHOOSE i \in DOMAIN csv_file :
                    csv_file[i].states = s /\ csv_file[i].year = y].population
    ELSE 0

RECURSIVE SumOver(_, _)
SumOver(S, y) ==
    IF S = {} THEN 0
    ELSE LET s == CHOOSE x \in S : TRUE
         IN  PopulationOf(s, y) + SumOver(S \ {s}, y)

\* The total population of year y in the data file.
TotalPopulation(y) == SumOver(States, y)

RECURSIVE SumDifferences(_)
SumDifferences(deltas) ==
    IF deltas = << >> THEN 0
    ELSE deltas[1].population_difference + SumDifferences(Tail(deltas))

Differences == {df_population_difference_sorted[i].population_difference :
                    i \in DOMAIN df_population_difference_sorted}

Abs(n) == IF n < 0 THEN -n ELSE n

\* p is a nearest integer to a / b.
IsNearest(p, a, b) == p \in Int /\ 2 * Abs(p * b - a) <= b

\* The rows of the selected and of the previous year, in file order.
SelectedRows == filter_year(csv_file, selected_year)

PreviousRows == filter_year(csv_file, selected_year - 1)

\* C1 (as claimed): every record of the result has the difference between
\* its state's population in the selected year and the same state's
\* population in the previous year, 0 standing for a missing previous record.
C1_DifferenceOfSameState ==
    \A i \in DOMAIN df_population_difference_sorted :
        LET d == df_population_difference_sorted[i]
        IN  d.population_difference =
                PopulationOf(d.states, selected_year)
                - PopulationOf(d.states, selected_year - 1)

\* C2 (as claimed): when the previous year has a record, the differences
\* sum to the total of the selected year minus the total of the previous year.
C2_Conservation ==
    (\E s \in States : HasRecord(s, selected_year - 1))
    => SumDifferences(df_population_difference_sorted)
         = TotalPopulation(selected_year) - TotalPopulation(selected_year - 1)

\* C2 (amended): the same, when moreover every state with a record for the
\* previous year also has one for the selected year.
C2_ConservationWhenNoStateLeaves ==
    ( /\ \E s \in States : HasRecord(s, selected_year - 1)
      /\ \A s \in States : HasRecord(s, selected_year - 1)
                             => HasRecord(s, selected_year) )
    => SumDifferences(df_population_difference_sorted)
         = TotalPopulation(selected_year) - TotalPopulation(selected_year - 1)

\* The amended C2 at work: a state joins in the selected year and the rows
\* of the two years are in different orders.
C2_Witness ==
    /\ \E s \in States : HasRecord(s, selected_year - 1)
    /\ \A s \in States : HasRecord(s, selected_year - 1)
                           => HasRecord(s, selected_year)
    /\ \E s \in States : HasRecord(s, selected_year)
                           /\ ~HasRecord(s, selected_year - 1)
    /\ \E i \in DOMAIN PreviousRows :
            PreviousRows[i].states # SelectedRows[i].states
    /\ SumDifferences(df_population_difference_sorted) < 0

\* C3 (as claimed): format_number(1000000) returns "1 M".
C3_MillionIsOneM ==
    (num = 1000000 /\ formatted # "") => formatted = "1 M"

\* C3 (amended): format_number(1000000) returns "1000 K".
C3_MillionIsThousandK ==
    (num = 1000000 /\ formatted # "") => formatted = "1000 K"

C3_Witness == num = 1000000 /\ formatted = "1000 K"

\* C4: for n >= 0 the M branch is taken exactly when n > 1000000; it gives
\* the whole millions without a decimal for an exact multiple and otherwise
\* the millions rounded to a nearest tenth; every n <= 1000000 gives the
\* floor of n / 1000 followed by " K".
C4_FormatOfNonNegative ==
    (num >= 0 /\ formatted # "")
    => /\ IF num > 1000000
          THEN IF \E m \in 1 .. (MaxMillions + 1) : num = m * 1000000
               THEN \E m \in 1 .. (MaxMillions + 1) :
                        num = m * 1000000 /\ formatted = ToString(m) \o " M"
               ELSE \E t \in 10 .. (10 * MaxMillions + 20) :
                        /\ Abs(num - t * 100000) <= 50000
                        /\ formatted = ToString(t \div 10) \o "."
                                         \o ToString(t % 10) \o " M"
          ELSE \E q \in 0 .. 1000 :
                    /\ q * 1000 <= num
                    /\ num < (q + 1) * 1000
                    /\ formatted = ToString(q) \o " K"
       /\ num = 1500000 => formatted = "1.5 M"
       /\ num = 999999 => formatted = "999 K"
       /\ num = 500 => formatted = "0 K"
       /\ num = 1000000 => formatted = "1000 K"

C4_Witness == num = 1960000 /\ formatted = "2.0 M"

\* C5: after the first year the inbound percentage is 100 * I / N rounded
\* to a nearest integer and the outbound percentage 100 * O / N, I counting
\* the records with a difference strictly above 50000, O those strictly
\* below -50000, N the distinct states of the records.
C5_MigrationPercentages ==
    selected_year > 2010
    => LET d == df_population_difference_sorted
           I == Cardinality({i \in DOMAIN d : d[i].population_difference > 50000})
           O == Cardinality({i \in DOMAIN d : d[i].population_difference < -50000})
           N == Cardinality({d[i].states : i \in DOMAIN d})
       IN  /\ IsNearest(states_migration_greater, 100 * I, N)
           /\ IsNearest(states_migration_less, 100 * O, N)

\* C5 at work: one state exactly at +50000, one exactly at -50000 and one
\* above the threshold: one state in three is inbound, none outbound.
C5_Witness ==
    /\ selected_year > 2010
    /\ Differences = {50000, -50000, 50001}
    /\ states_migration_greater = 33
    /\ states_migration_less = 0

\* C6: both percentages given to make_donut are integers in 0..100, for
\* every selectable year.
C6_PercentagesInRange ==
    /\ states_migration_greater \in 0 .. 100
    /\ states_migration_less \in 0 .. 100

C6_Witness ==
    /\ selected_year > 2010
    /\ states_migration_greater = 67
    /\ states_migration_less = 33

\* C7: the result is ordered by population_difference, largest first; after
\* the first year the first metric names the state of the largest
\* difference and the second metric the state of the smallest.
C7_SortedDescending ==
    LET d == df_population_difference_sorted
    IN  /\ \A i, j \in DOMAIN d :
              i < j => d[i].population_difference >= d[j].population_difference
        /\ selected_year > 2010
           => /\ \E i \in DOMAIN d :
                    /\ d[i].states = first_state_name
                    /\ \A j \in DOMAIN d : d[i].population_difference
                                             >= d[j].population_difference
              /\ \E i \in DOMAIN d :
                    /\ d[i].states = last_state_name
                    /\ \A j \in DOMAIN d : d[i].population_difference
                                             <= d[j].population_difference

\* C7 at work: three distinct differences, and the file lists the state of
\* the smallest one first and that of the largest one last.
C7_Witness ==
    /\ selected_year > 2010
    /\ Cardinality(Differences) = 3
    /\ Len(SelectedRows) = 3
    /\ SelectedRows[1].states = last_state_name
    /\ SelectedRows[3].states = first_state_name

\* C8: the table is the data file as loaded, and what is shown for the
\* selected year is what a first execution shows for that year, whatever
\* was selected before.
C8_RecomputedFromFile ==
    /\ df_reshaped = csv_file
    /\ df_population_difference_sorted
         = calculate_population_difference(csv_file, selected_year)
    /\ df_selected_year_sorted
         = sort_values(filter_year(csv_file, selected_year), "population")
    /\ states_migration_greater
         = inbound_percentage(selected_year,
              calculate_population_difference(csv_file, selected_year))
    /\ states_migration_less
         = outbound_percentage(selected_year,
              calculate_population_difference(csv_file, selected_year))

\* C8 at work: the year and the theme are both other than the ones of the
\* first execution, and the year has differences to show.
C8_Witness ==
    /\ selected_year # year_list[1]
    /\ selected_color_theme # color_theme_list[1]
    /\ Len(df_population_difference_sorted) = 3

\* The first year of the table.
MinYear == CHOOSE y \in Years :
              /\ \E i \in DOMAIN df_reshaped : df_reshaped[i].year = y
              /\ \A i \in DOMAIN df_reshaped : df_reshaped[i].year >= y

C10_FormatOfNegative ==
    (num < 0 /\ formatted # "")
    => /\ \E q \in (-1000 * (MaxMillions + 1)) .. -1 :
              /\ q * 1000 <= num
              /\ num < (q + 1) * 1000
              /\ formatted = ToString(q) \o " K"
       /\ num \in -1000 .. -1 => formatted = "-1 K"
       /\ num = -2500000 => formatted = "-2500 K"

C10_Witness == num = -2500001 /\ formatted = "-2501 K"

====
